---- MODULE Spec2Model ----
(***************************************************************************)
(* A model of src/layers.py: the PatternConv2d and PatternLinear wrappers  *)
(* (forward, backward, compute_statistics, compute_patterns, set_patterns) *)
(* and the dilation_mask helper of PatternConv2d.                          *)
(*                                                                         *)
(* Tensors are records [shape, data]: shape is the tuple of dimensions,    *)
(* data a function from zero-based index tuples to values.  Forward-side   *)
(* values are integers; the output of backward is a tensor of rationals    *)
(* <<num, den>> so that the division by absmax is exact.                   *)
(***************************************************************************)
EXTENDS Integers, Sequences, FiniteSets, TLC

VARIABLES
    forward_layer,   \* self.forward_layer: the wrapped layer (immutable)
    backward_layer,  \* self.backward_layer: configuration and weight
    statistics,      \* self.statistics
    patterns,        \* self.patterns
    ret,             \* the last call: its name, arguments, outcome and value
    calls,           \* history: the arguments of the completed compute_statistics calls
    fit,             \* history: Len(calls) at the last successful compute_patterns
    w0               \* history: the backward weight as constructed

vars == <<forward_layer, backward_layer, statistics, patterns, ret, calls, fit, w0>>

\* Python's None is the empty tuple and a present value v the tuple <<v>>
None == <<>>
Some(v) == <<v>>

----------------------------------------------------------------------------
(* Bounds of the model.                                                    *)

\* compute_statistics calls per run
MaxCalls == 2
\* channels, kernel extent and dilation factors tried on dilation_mask
MaxCh == 2
MaxK == 3
MaxDil == 3
\* spatial extent of the inputs tried on forward/backward shapes
MaxDim == 5
\* entries of the raw outputs tried on the normalisation
NormLen == 2

----------------------------------------------------------------------------
(* Arithmetic helpers.                                                     *)

Abs(n) == IF n < 0 THEN -n ELSE n

RECURSIVE GCD(_, _)
GCD(a, b) == IF b = 0 THEN a ELSE GCD(b, a % b)

\* the rational n/d in lowest terms with a positive denominator
Rat(n, d) ==
    LET g == GCD(Abs(n), Abs(d))
        s == IF d < 0 THEN -1 ELSE 1
    IN  <<(s * n) \div g, (s * d) \div g>>

RatOfInt(n) == <<n, 1>>
RatAbs(a) == <<Abs(a[1]), a[2]>>
RatLess(a, b) == a[1] * b[2] < b[1] * a[2]
RatDiv(a, b) == Rat(a[1] * b[2], a[2] * b[1])
RatAdd(a, b) ==
    LET l == (a[2] \div GCD(a[2], b[2])) * b[2]
    IN  Rat(a[1] * (l \div a[2]) + b[1] * (l \div b[2]), l)
\* a rational times an integer
RatMulInt(a, k) == Rat(a[1] * k, a[2])

RECURSIVE SumSet(_, _)
SumSet(f, S) ==
    IF S = {} THEN 0
    ELSE LET x == CHOOSE y \in S : TRUE IN f[x] + SumSet(f, S \ {x})

RECURSIVE RatSumSet(_, _)
RatSumSet(f, S) ==
    IF S = {} THEN <<0, 1>>
    ELSE LET x == CHOOSE y \in S : TRUE IN RatAdd(f[x], RatSumSet(f, S \ {x}))

\* the largest of the rationals f[x], x in S (S not empty)
MaxSet(f, S) ==
    LET x == CHOOSE y \in S : \A z \in S : ~RatLess(f[y], f[z])
    IN  f[x]

----------------------------------------------------------------------------
(* Tensors.                                                                *)

Idx(shape) ==
    IF Len(shape) = 4
    THEN (0 .. shape[1] - 1) \X (0 .. shape[2] - 1) \X (0 .. shape[3] - 1) \X (0 .. shape[4] - 1)
    ELSE (0 .. shape[1] - 1) \X (0 .. shape[2] - 1)

Tensor(shape, f) == [shape |-> shape, data |-> f]

\* torch.zeros(shape)
Zeros(shape) == Tensor(shape, [i \in Idx(shape) |-> 0])

\* a tensor with every entry v
Full(shape, v) == Tensor(shape, [i \in Idx(shape) |-> v])

\* the entries of t in row-major order (torch.flatten)
FlatPos(shape, i) ==
    IF Len(shape) = 4
    THEN ((i[1] * shape[2] + i[2]) * shape[3] + i[3]) * shape[4] + i[4]
    ELSE i[1] * shape[2] + i[2]

Flatten(t) ==
    [k \in 0 .. Cardinality(Idx(t.shape)) - 1 |->
        t.data[CHOOSE i \in Idx(t.shape) : FlatPos(t.shape, i) = k]]

\* t.permute(1, 0) of a 2-d tensor
Permute10(t) ==
    Tensor(<<t.shape[2], t.shape[1]>>,
           [i \in Idx(<<t.shape[2], t.shape[1]>>) |-> t.data[<<i[2], i[1]>>]])

IsErr(r) == "err" \in DOMAIN r
Err(kind) == [err |-> kind]

----------------------------------------------------------------------------
(* dilation_mask, the helper defined in PatternConv2d.__init__.            *)

\* np.arange(start, stop, step) as a sequence
Arange(start, stop, step) ==
    [k \in 1 .. ((stop - start + step - 1) \div step) |-> start + (k - 1) * step]

\* np.meshgrid(a, b): two arrays of Len(b) rows and Len(a) columns
Meshgrid(a, b) ==
    [x |-> [r \in 1 .. Len(b) |-> [c \in 1 .. Len(a) |-> a[c]]],
     y |-> [r \in 1 .. Len(b) |-> [c \in 1 .. Len(a) |-> b[r]]]]

\* faulty variant: the two dilation factors taken for the wrong axes
dilation_mask_swapped(kernel_size, dilation) ==
    LET shape == <<kernel_size[1], kernel_size[2],
                   kernel_size[3] + (dilation[1] - 1) * (kernel_size[3] - 1),
                   kernel_size[4] + (dilation[2] - 1) * (kernel_size[4] - 1)>>
        mask == Zeros(shape)
        locs_x == Arange(0, shape[3], dilation[2])
        locs_y == Arange(0, shape[4], dilation[1])
        inds == Meshgrid(locs_x, locs_y)
        hit == {<<inds.x[r][c], inds.y[r][c]>> :
                    r \in 1 .. Len(locs_y), c \in 1 .. Len(locs_x)}
    IN  Tensor(shape, [i \in Idx(shape) |->
                        IF <<i[3], i[4]>> \in hit THEN 1 ELSE mask.data[i]])

dilation_mask(kernel_size, dilation) ==
    LET shape == <<kernel_size[1], kernel_size[2],
                   kernel_size[3] + (dilation[1] - 1) * (kernel_size[3] - 1),
                   kernel_size[4] + (dilation[2] - 1) * (kernel_size[4] - 1)>>
        mask == Zeros(shape)
        locs_x == Arange(0, shape[3], dilation[1])
        locs_y == Arange(0, shape[4], dilation[2])
        inds == Meshgrid(locs_x, locs_y)
        hit == {<<inds.x[r][c], inds.y[r][c]>> :
                    r \in 1 .. Len(locs_y), c \in 1 .. Len(locs_x)}
    IN  Tensor(shape, [i \in Idx(shape) |->
                        IF <<i[3], i[4]>> \in hit THEN 1 ELSE mask.data[i]])

----------------------------------------------------------------------------
(* The torch layers the wrappers hold: nn.Conv2d and nn.Linear applied to  *)
(* a tensor.  The values of x are integers on the forward side and        *)
(* rationals (rational = TRUE) on the backward side; weights are integers. *)

\* the sum over K of the products x[k] * w[k]
Dot(xs, ws, K, rational) ==
    IF rational
    THEN RatSumSet([k \in K |-> RatMulInt(xs[k], ws[k])], K)
    ELSE SumSet([k \in K |-> xs[k] * ws[k]], K)

\* nn.Conv2d(...)(x): cross-correlation of x (N, C_in, H, W) with the weight
\* w (C_out, C_in, kh, kw); a RuntimeError for a negative padding, a channel
\* mismatch or a padded input smaller than the dilated kernel
Conv2d(x, w, stride, padding, dilation, rational) ==
    LET H == x.shape[3]
        W == x.shape[4]
        keh == dilation[1] * (w.shape[3] - 1) + 1
        kew == dilation[2] * (w.shape[4] - 1) + 1
    IN  IF padding[1] < 0 \/ padding[2] < 0 THEN Err("RuntimeError")
        ELSE IF x.shape[2] # w.shape[2] THEN Err("RuntimeError")
        ELSE IF H + 2 * padding[1] < keh \/ W + 2 * padding[2] < kew
             THEN Err("RuntimeError")
        ELSE
          LET Ho == (H + 2 * padding[1] - keh) \div stride[1] + 1
              Wo == (W + 2 * padding[2] - kew) \div stride[2] + 1
              shape == <<x.shape[1], w.shape[1], Ho, Wo>>
              K == (0 .. w.shape[2] - 1) \X (0 .. w.shape[3] - 1) \X (0 .. w.shape[4] - 1)
              At(n, c, i, j) ==
                  IF i >= 0 /\ i < H /\ j >= 0 /\ j < W
                  THEN x.data[<<n, c, i, j>>]
                  ELSE IF rational THEN <<0, 1>> ELSE 0
              Patch(o) ==
                  [k \in K |->
                      At(o[1], k[1],
                         o[3] * stride[1] + k[2] * dilation[1] - padding[1],
                         o[4] * stride[2] + k[3] * dilation[2] - padding[2])]
              Kernel(o) == [k \in K |-> w.data[<<o[2], k[1], k[2], k[3]>>]]
          IN  Tensor(shape, [o \in Idx(shape) |-> Dot(Patch(o), Kernel(o), K, rational)])

\* nn.Linear(...)(x) without its bias: x (B, in) times the transpose of w (out, in)
Linear(x, w, rational) ==
    IF x.shape[2] # w.shape[2] THEN Err("RuntimeError")
    ELSE LET shape == <<x.shape[1], w.shape[1]>>
             K == 0 .. w.shape[2] - 1
         IN  Tensor(shape, [o \in Idx(shape) |->
                 Dot([k \in K |-> x.data[<<o[1], k>>]],
                     [k \in K |-> w.data[<<o[2], k>>]], K, rational)])

\* the forward layer applied to an input, bias included
ForwardLayer(layer, input) ==
    LET lin == IF layer.kind = "Conv"
               THEN Conv2d(input, layer.weight, layer.stride, layer.padding,
                           layer.dilation, FALSE)
               ELSE Linear(input, layer.weight, FALSE)
    IN  IF IsErr(lin) \/ layer.bias = None THEN lin
        ELSE Tensor(lin.shape, [i \in Idx(lin.shape) |-> lin.data[i] + layer.bias[1][i[2]]])

\* expand_bias(bias, size) of forward: the bias of channel i at every [:, i, ...]
expand_bias(bias, size) == Tensor(size, [i \in Idx(size) |-> bias[i[2]]])

----------------------------------------------------------------------------
(* Construction of the wrappers.                                           *)

\* PatternConv2d.__init__: the backward layer is nn.Conv2d(out_channels,
\* in_channels, ks, stride, padding = ks - 1 - padding_f, bias = False);
\* weight stands for the weight nn.Conv2d initialises it with
PatternConv2d_backward_layer(conv_layer, weight) ==
    LET padding_f == conv_layer.padding
        ks == conv_layer.kernel_size
        padding_b == <<-padding_f[1] + ks[1] - 1, -padding_f[2] + ks[2] - 1>>
    IN  [kind |-> "Conv",
         kernel_size |-> ks,
         stride |-> conv_layer.stride,
         padding |-> padding_b,
         weight |-> weight]

\* PatternLinear.__init__: nn.Linear(out_features, in_features, bias = False)
PatternLinear_backward_layer(linear_layer, weight) ==
    [kind |-> "Linear", weight |-> weight]

\* self.dil_mask = lambda ks: dilation_mask(ks, conv_layer.dilation)
dil_mask(layer, ks) == dilation_mask(ks, layer.dilation)

----------------------------------------------------------------------------
(* backward: the backward layer, the scatter of a dilated layer and the    *)
(* normalisation.                                                          *)

AbsmaxThreshold == <<1, 1000000>>

\* faulty variant: the clipping without the division by absmax
NormalizeOutput_nodivide(output, normalize_output) ==
    IF ~normalize_output THEN output
    ELSE LET I == Idx(output.shape)
             clipped == [i \in I |->
                            IF RatLess(<<1, 1>>, output.data[i]) THEN <<1, 1>>
                            ELSE IF RatLess(output.data[i], <<-1, 1>>) THEN <<-1, 1>>
                            ELSE output.data[i]]
         IN  Tensor(output.shape, clipped)

\* the normalize_output branch of backward: output.data /= absmax when
\* absmax > 0.000001, then the entries above 1 set to 1 and below -1 to -1
NormalizeOutput(output, normalize_output) ==
    IF ~normalize_output THEN output
    ELSE LET I == Idx(output.shape)
             absmax == MaxSet([i \in I |-> RatAbs(output.data[i])], I)
             divided == IF RatLess(AbsmaxThreshold, absmax)
                        THEN [i \in I |-> RatDiv(output.data[i], absmax)]
                        ELSE output.data
             over == [i \in I |-> IF RatLess(<<1, 1>>, divided[i]) THEN <<1, 1>> ELSE divided[i]]
             under == [i \in I |-> IF RatLess(over[i], <<-1, 1>>) THEN <<-1, 1>> ELSE over[i]]
         IN  Tensor(output.shape, under)

\* output_dilated = zeros(mask.shape); output_dilated[mask == 1] = flatten(output):
\* the k-th entry of the mask that is 1, in row-major order, takes the k-th
\* entry of output; a RuntimeError when the two counts differ
Scatter(output_mask, output) ==
    LET I == Idx(output_mask.shape)
        ones == {i \in I : output_mask.data[i] = 1}
        flat == Flatten(output)
        Rank(i) == Cardinality({j \in ones :
                       FlatPos(output_mask.shape, j) < FlatPos(output_mask.shape, i)})
    IN  IF Cardinality(ones) # Cardinality(Idx(output.shape)) THEN Err("RuntimeError")
        ELSE Tensor(output_mask.shape,
                    [i \in I |-> IF i \in ones THEN flat[Rank(i)] ELSE <<0, 1>>])

\* the raw output of the backward layer
BackwardLayer(bl, input) ==
    IF bl.kind = "Conv"
    THEN Conv2d(input, bl.weight, bl.stride, bl.padding, <<1, 1>>, TRUE)
    ELSE Linear(input, bl.weight, TRUE)

\* PatternConv2d.backward up to the normalisation
Conv_backward_raw(fl, bl, input) ==
    LET output == BackwardLayer(bl, input)
    IN  IF IsErr(output) THEN output
        ELSE IF fl.dilation # <<1, 1>>
             THEN Scatter(dil_mask(fl, output.shape), output)
             ELSE output

----------------------------------------------------------------------------
(* The patterns module (DenseMapper, RunningStatistics, PatternSolver).    *)
(* Dense matrices are 2-d tensors, one row per sample (and output          *)
(* location), and the running means are kept as exact sums.                *)

\* patterns._conv_maps_to_dense(input, output, kernel_size): the patch of
\* every output location as a row of inp_dense, the output channels at that
\* location as the row of out_dense
conv_maps_to_dense(input, output, kernel_size) ==
    LET Ho == output.shape[3]
        Wo == output.shape[4]
        kh == kernel_size[1]
        kw == kernel_size[2]
        rows == output.shape[1] * Ho * Wo
        ishape == <<rows, input.shape[2] * kh * kw>>
        oshape == <<rows, output.shape[2]>>
        N(r) == r \div (Ho * Wo)
        I(r) == (r \div Wo) % Ho
        J(r) == r % Wo
        At(n, c, i, j) ==
            IF i < input.shape[3] /\ j < input.shape[4]
            THEN input.data[<<n, c, i, j>>] ELSE 0
    IN  [inp |-> Tensor(ishape, [e \in Idx(ishape) |->
                    At(N(e[1]), e[2] \div (kh * kw),
                       I(e[1]) + ((e[2] \div kw) % kh), J(e[1]) + (e[2] % kw))]),
         out |-> Tensor(oshape, [e \in Idx(oshape) |->
                    output.data[<<N(e[1]), e[2], I(e[1]), J(e[1])>>]])]

\* patterns.compute_statistics(x, y_wo_bias, y): the accumulators of a first batch
compute_statistics(x, y_wo_bias, y) ==
    LET R == 0 .. x.shape[1] - 1
        XS == 0 .. x.shape[2] - 1
        YS == 0 .. y.shape[2] - 1
    IN  [n |-> x.shape[1],
         sx |-> [k \in XS |-> SumSet([r \in R |-> x.data[<<r, k>>]], R)],
         sywb |-> [o \in YS |-> SumSet([r \in R |-> y_wo_bias.data[<<r, o>>]], R)],
         sy |-> [o \in YS |-> SumSet([r \in R |-> y.data[<<r, o>>]], R)],
         sxy |-> [e \in XS \X YS |->
                    SumSet([r \in R |-> x.data[<<r, e[1]>>] * y_wo_bias.data[<<r, e[2]>>]], R)],
         sxp |-> [e \in XS \X YS |->
                    SumSet([r \in R |-> IF y.data[<<r, e[2]>>] > 0
                                         THEN x.data[<<r, e[1]>>] ELSE 0], R)]]

\* patterns.update_statistics(x, y_wo_bias, y, prior): the batch merged into prior
update_statistics(x, y_wo_bias, y, prior) ==
    LET b == compute_statistics(x, y_wo_bias, y)
    IN  IF x.shape[1] = 0 THEN prior
        ELSE [n |-> prior.n + b.n,
              sx |-> [k \in DOMAIN prior.sx |-> prior.sx[k] + b.sx[k]],
              sywb |-> [o \in DOMAIN prior.sywb |-> prior.sywb[o] + b.sywb[o]],
              sy |-> [o \in DOMAIN prior.sy |-> prior.sy[o] + b.sy[o]],
              sxy |-> [e \in DOMAIN prior.sxy |-> prior.sxy[e] + b.sxy[e]],
              sxp |-> [e \in DOMAIN prior.sxp |-> prior.sxp[e] + b.sxp[e]]]

\* a = Cov(x, s) / (w^T Cov(x, s)) per output unit, in fixed point with two
\* binary digits, 0 where the denominator is 0; w is the weight as a matrix
\* (out, in)
SolveA(cov, w, XS, YS) ==
    LET den == [o \in YS |-> SumSet([k \in XS |-> w[<<o, k>>] * cov[<<k, o>>]], XS)]
    IN  [e \in XS \X YS |->
            IF den[e[2]] = 0 THEN 0 ELSE (4 * cov[e]) \div den[e[2]]]

\* patterns.compute_patterns_linear(statistics, w): A_linear and A_plus,
\* shaped (in_features, out_features); an invalid-state error without statistics
compute_patterns_linear(stats, w) ==
    IF stats = None THEN Err("InvalidState")
    ELSE LET st == stats[1]
             XS == DOMAIN st.sx
             YS == DOMAIN st.sy
             shape == <<Cardinality(XS), Cardinality(YS)>>
             cov == [e \in XS \X YS |-> st.n * st.sxy[e] - st.sx[e[1]] * st.sywb[e[2]]]
         IN  [A_linear |-> Tensor(shape, SolveA(cov, w.data, XS, YS)),
              A_plus |-> Tensor(shape, SolveA(st.sxp, w.data, XS, YS))]

\* patterns.compute_patterns_conv(statistics, kernel): the same per flattened
\* kernel position, shaped like the backward kernel (in_channels,
\* out_channels, kh, kw)
compute_patterns_conv(stats, kernel) ==
    IF stats = None THEN Err("InvalidState")
    ELSE LET st == stats[1]
             XS == DOMAIN st.sx
             YS == DOMAIN st.sy
             kh == kernel.shape[3]
             kw == kernel.shape[4]
             shape == <<kernel.shape[2], kernel.shape[1], kh, kw>>
             w == [e \in YS \X XS |->
                      kernel.data[<<e[1], e[2] \div (kh * kw), (e[2] \div kw) % kh, e[2] % kw>>]]
             cov == [e \in XS \X YS |-> st.n * st.sxy[e] - st.sx[e[1]] * st.sywb[e[2]]]
             Shaped(a) == Tensor(shape, [i \in Idx(shape) |->
                              a[<<(i[1] * kh + i[3]) * kw + i[4], i[2]>>]])
         IN  [A_linear |-> Shaped(SolveA(cov, w, XS, YS)),
              A_plus |-> Shaped(SolveA(st.sxp, w, XS, YS))]

----------------------------------------------------------------------------
(* The methods of the wrappers.  Every call leaves its record in ret: the  *)
(* method, its arguments, "ok" or the exception raised, and the value      *)
(* returned (a tuple, empty when the method returns nothing or raises).    *)

Call(op, args, status, value) ==
    [op |-> op, args |-> args, status |-> status, value |-> value]

\* forward of both wrappers: (output, output - expand_bias(bias)) with a
\* bias, output alone without
forward(input) ==
    LET output == ForwardLayer(forward_layer, input)
    IN  IF IsErr(output) THEN Call("forward", [input |-> input], output.err, None)
        ELSE IF forward_layer.bias = None
             THEN Call("forward", [input |-> input], "ok", <<output>>)
        ELSE LET bias == expand_bias(forward_layer.bias[1], output.shape)
                 output_wo_bias == Tensor(output.shape,
                     [i \in Idx(output.shape) |-> output.data[i] - bias.data[i]])
             IN  Call("forward", [input |-> input], "ok", <<output, output_wo_bias>>)

Conv_forward(input) ==
    /\ forward_layer.kind = "Conv"
    /\ ret' = forward(input)
    /\ UNCHANGED <<forward_layer, backward_layer, statistics, patterns, calls, fit, w0>>

Linear_forward(input) ==
    /\ forward_layer.kind = "Linear"
    /\ ret' = forward(input)
    /\ UNCHANGED <<forward_layer, backward_layer, statistics, patterns, calls, fit, w0>>

Conv_backward(input, normalize_output) ==
    /\ forward_layer.kind = "Conv"
    /\ LET args == [input |-> input, normalize_output |-> normalize_output]
           output == Conv_backward_raw(forward_layer, backward_layer, input)
       IN  ret' = IF IsErr(output) THEN Call("backward", args, output.err, None)
                  ELSE Call("backward", args, "ok",
                            <<NormalizeOutput(output, normalize_output)>>)
    /\ UNCHANGED <<forward_layer, backward_layer, statistics, patterns, calls, fit, w0>>

Linear_backward(input, normalize_output) ==
    /\ forward_layer.kind = "Linear"
    /\ LET args == [input |-> input, normalize_output |-> normalize_output]
           output == BackwardLayer(backward_layer, input)
       IN  ret' = IF IsErr(output) THEN Call("backward", args, output.err, None)
                  ELSE Call("backward", args, "ok",
                            <<NormalizeOutput(output, normalize_output)>>)
    /\ UNCHANGED <<forward_layer, backward_layer, statistics, patterns, calls, fit, w0>>

\* torch.flatten(mask[0]) of a 4-d mask
FlattenFirst(mask) ==
    LET h == mask.shape[3]
        w == mask.shape[4]
    IN  [k \in 0 .. mask.shape[2] * h * w - 1 |->
            mask.data[<<0, k \div (h * w), (k \div w) % h, k % w>>]]

\* inp_dense[:, inp_mask == 1]: the columns the mask marks, in order; an
\* IndexError when the mask is not as long as the rows
SelectColumns(inp_dense, inp_mask) ==
    LET cols == {c \in DOMAIN inp_mask : inp_mask[c] = 1}
        Col(k) == CHOOSE c \in cols : Cardinality({d \in cols : d < c}) = k
        shape == <<inp_dense.shape[1], Cardinality(cols)>>
    IN  IF DOMAIN inp_mask # 0 .. inp_dense.shape[2] - 1 THEN Err("IndexError")
        ELSE Tensor(shape, [e \in Idx(shape) |-> inp_dense.data[<<e[1], Col(e[2])>>]])

\* the statistics a compute_statistics call of PatternConv2d leaves, from the
\* statistics it finds
Conv_statistics(layer, prior, input, output, output_wo_bias) ==
    LET ks == layer.kernel_size
        dilation == layer.dilation
        kernel_size == IF dilation # <<1, 1>>
                       THEN <<ks[1] + (dilation[1] - 1) * (ks[1] - 1),
                              ks[2] + (dilation[2] - 1) * (ks[2] - 1)>>
                       ELSE ks
        wo == conv_maps_to_dense(input,
                  IF output_wo_bias = None THEN output ELSE output_wo_bias[1], kernel_size)
        full == conv_maps_to_dense(input, output, kernel_size)
        inp_dense == IF dilation # <<1, 1>>
                     THEN SelectColumns(wo.inp,
                              FlattenFirst(dil_mask(layer, layer.weight.shape)))
                     ELSE wo.inp
    IN  IF IsErr(inp_dense) THEN inp_dense
        ELSE IF prior = None
             THEN compute_statistics(inp_dense, wo.out, full.out)
             ELSE update_statistics(inp_dense, wo.out, full.out, prior[1])

Conv_compute_statistics(input, output, output_wo_bias) ==
    /\ forward_layer.kind = "Conv"
    /\ Len(calls) < MaxCalls
    /\ LET args == [input |-> input, output |-> output, output_wo_bias |-> output_wo_bias]
           new == Conv_statistics(forward_layer, statistics, input, output, output_wo_bias)
       IN  IF IsErr(new)
           THEN /\ ret' = Call("compute_statistics", args, new.err, None)
                /\ UNCHANGED <<statistics, calls>>
           ELSE /\ statistics' = Some(new)
                /\ calls' = Append(calls, args)
                /\ ret' = Call("compute_statistics", args, "ok", None)
    /\ UNCHANGED <<forward_layer, backward_layer, patterns, fit, w0>>

\* faulty variant: every batch initialises the statistics afresh
Linear_statistics_reinit(prior, input, output, output_wo_bias) ==
    LET y_wo_bias == IF output_wo_bias = None THEN output ELSE output_wo_bias[1]
    IN  compute_statistics(input, y_wo_bias, output)

\* the same for PatternLinear, whose activations are dense already
Linear_statistics(prior, input, output, output_wo_bias) ==
    LET y_wo_bias == IF output_wo_bias = None THEN output ELSE output_wo_bias[1]
    IN  IF prior = None
        THEN compute_statistics(input, y_wo_bias, output)
        ELSE update_statistics(input, y_wo_bias, output, prior[1])

\* variant: a new batch drops the patterns computed before it
Linear_compute_statistics_invalidating(input, output, output_wo_bias) ==
    /\ forward_layer.kind = "Linear"
    /\ Len(calls) < MaxCalls
    /\ LET args == [input |-> input, output |-> output, output_wo_bias |-> output_wo_bias]
       IN  /\ statistics' = Some(Linear_statistics(statistics, input, output, output_wo_bias))
           /\ calls' = Append(calls, args)
           /\ ret' = Call("compute_statistics", args, "ok", None)
    /\ patterns' = None
    /\ UNCHANGED <<forward_layer, backward_layer, fit, w0>>

Linear_compute_statistics(input, output, output_wo_bias) ==
    /\ forward_layer.kind = "Linear"
    /\ Len(calls) < MaxCalls
    /\ LET args == [input |-> input, output |-> output, output_wo_bias |-> output_wo_bias]
       IN  /\ statistics' = Some(Linear_statistics(statistics, input, output, output_wo_bias))
           /\ calls' = Append(calls, args)
           /\ ret' = Call("compute_statistics", args, "ok", None)
    /\ UNCHANGED <<forward_layer, backward_layer, patterns, fit, w0>>

\* faulty variant: returns quietly when there are no statistics
Conv_compute_patterns_silent ==
    /\ forward_layer.kind = "Conv"
    /\ LET kernel == forward_layer.weight
           new == compute_patterns_conv(statistics, kernel)
       IN  IF statistics = None
           THEN /\ ret' = Call("compute_patterns", <<>>, "ok", None)
                /\ UNCHANGED <<patterns, fit>>
           ELSE /\ patterns' = Some(new)
                /\ fit' = Len(calls)
                /\ ret' = Call("compute_patterns", <<>>, "ok", None)
    /\ UNCHANGED <<forward_layer, backward_layer, statistics, calls, w0>>

Conv_compute_patterns ==
    /\ forward_layer.kind = "Conv"
    /\ LET kernel == forward_layer.weight
           new == compute_patterns_conv(statistics, kernel)
       IN  IF IsErr(new)
           THEN /\ ret' = Call("compute_patterns", <<>>, new.err, None)
                /\ UNCHANGED <<patterns, fit>>
           ELSE /\ patterns' = Some(new)
                /\ fit' = Len(calls)
                /\ ret' = Call("compute_patterns", <<>>, "ok", None)
    /\ UNCHANGED <<forward_layer, backward_layer, statistics, calls, w0>>

\* faulty variant: falls back to the forward weight when there are no statistics
Linear_compute_patterns_default ==
    /\ forward_layer.kind = "Linear"
    /\ LET w == forward_layer.weight
           new == IF statistics = None THEN [A_linear |-> w, A_plus |-> w]
                  ELSE compute_patterns_linear(statistics, w)
       IN  /\ patterns' = Some(new)
           /\ fit' = Len(calls)
           /\ ret' = Call("compute_patterns", <<>>, "ok", None)
    /\ UNCHANGED <<forward_layer, backward_layer, statistics, calls, w0>>

Linear_compute_patterns ==
    /\ forward_layer.kind = "Linear"
    /\ LET w == forward_layer.weight
           new == compute_patterns_linear(statistics, w)
       IN  IF IsErr(new)
           THEN /\ ret' = Call("compute_patterns", <<>>, new.err, None)
                /\ UNCHANGED <<patterns, fit>>
           ELSE /\ patterns' = Some(new)
                /\ fit' = Len(calls)
                /\ ret' = Call("compute_patterns", <<>>, "ok", None)
    /\ UNCHANGED <<forward_layer, backward_layer, statistics, calls, w0>>

\* the pattern_type a set_patterns call runs with: 'relu' when omitted
PatternType(arg) == IF arg = None THEN "relu" ELSE arg[1]

\* set_patterns: self.patterns['A_plus'] raises a TypeError on None; a
\* pattern_type that is neither 'relu' nor 'linear' falls through both branches
Conv_set_patterns(pattern_type) ==
    /\ forward_layer.kind = "Conv"
    /\ LET args == [pattern_type |-> pattern_type]
           key == IF PatternType(pattern_type) = "relu" THEN "A_plus" ELSE "A_linear"
       IN  IF PatternType(pattern_type) \in {"relu", "linear"}
           THEN IF patterns = None
                THEN /\ ret' = Call("set_patterns", args, "TypeError", None)
                     /\ UNCHANGED backward_layer
                ELSE /\ backward_layer' = [backward_layer EXCEPT !.weight = patterns[1][key]]
                     /\ ret' = Call("set_patterns", args, "ok", None)
           ELSE /\ ret' = Call("set_patterns", args, "ok", None)
                /\ UNCHANGED backward_layer
    /\ UNCHANGED <<forward_layer, statistics, patterns, calls, fit, w0>>

\* faulty variant: the pattern installed without permute(1, 0)
Linear_set_patterns_untransposed(pattern_type) ==
    /\ forward_layer.kind = "Linear"
    /\ LET args == [pattern_type |-> pattern_type]
           key == IF PatternType(pattern_type) = "relu" THEN "A_plus" ELSE "A_linear"
       IN  IF PatternType(pattern_type) \in {"relu", "linear"}
           THEN IF patterns = None
                THEN /\ ret' = Call("set_patterns", args, "TypeError", None)
                     /\ UNCHANGED backward_layer
                ELSE /\ backward_layer' = [backward_layer EXCEPT !.weight = patterns[1][key]]
                     /\ ret' = Call("set_patterns", args, "ok", None)
           ELSE /\ ret' = Call("set_patterns", args, "ok", None)
                /\ UNCHANGED backward_layer
    /\ UNCHANGED <<forward_layer, statistics, patterns, calls, fit, w0>>

Linear_set_patterns(pattern_type) ==
    /\ forward_layer.kind = "Linear"
    /\ LET args == [pattern_type |-> pattern_type]
           key == IF PatternType(pattern_type) = "relu" THEN "A_plus" ELSE "A_linear"
       IN  IF PatternType(pattern_type) \in {"relu", "linear"}
           THEN IF patterns = None
                THEN /\ ret' = Call("set_patterns", args, "TypeError", None)
                     /\ UNCHANGED backward_layer
                ELSE /\ backward_layer' =
                            [backward_layer EXCEPT !.weight = Permute10(patterns[1][key])]
                     /\ ret' = Call("set_patterns", args, "ok", None)
           ELSE /\ ret' = Call("set_patterns", args, "ok", None)
                /\ UNCHANGED backward_layer
    /\ UNCHANGED <<forward_layer, statistics, patterns, calls, fit, w0>>

----------------------------------------------------------------------------
(* Construction, and the specification of a wrapper's life.                *)

\* a 2-d tensor from its rows, and a (1, 1, 1, W) tensor from its row
FromRows(rows) ==
    Tensor(<<Len(rows), Len(rows[1])>>,
           [i \in Idx(<<Len(rows), Len(rows[1])>>) |-> rows[i[1] + 1][i[2] + 1]])
FromRow4(row) ==
    Tensor(<<1, 1, 1, Len(row)>>, [i \in Idx(<<1, 1, 1, Len(row)>>) |-> row[i[4] + 1]])

PatternConv2d_init(conv_layer, weight) ==
    /\ forward_layer = conv_layer
    /\ backward_layer = PatternConv2d_backward_layer(conv_layer, weight)
    /\ statistics = None
    /\ patterns = None
    /\ ret = Call("__init__", <<>>, "ok", None)
    /\ calls = <<>>
    /\ fit = 0
    /\ w0 = weight

PatternLinear_init(linear_layer, weight) ==
    /\ forward_layer = linear_layer
    /\ backward_layer = PatternLinear_backward_layer(linear_layer, weight)
    /\ statistics = None
    /\ patterns = None
    /\ ret = Call("__init__", <<>>, "ok", None)
    /\ calls = <<>>
    /\ fit = 0
    /\ w0 = weight

\* the layers wrapped: a dense layer 2 -> 2 and a 1 x 2 convolution of one
\* channel, with and without bias, the convolution plain and dilated
LinearLayer(n, bias) ==
    [kind |-> "Linear", in_features |-> n, out_features |-> n,
     weight |-> Tensor(<<n, n>>, [i \in Idx(<<n, n>>) |-> IF i[2] <= i[1] THEN 1 ELSE 0]),
     bias |-> bias]

ConvLayer(kernel_size, stride, padding, dilation, out_channels, bias) ==
    [kind |-> "Conv", in_channels |-> 1, out_channels |-> out_channels,
     kernel_size |-> kernel_size, stride |-> stride, padding |-> padding,
     dilation |-> dilation,
     weight |-> Tensor(<<out_channels, 1, kernel_size[1], kernel_size[2]>>,
                       [i \in Idx(<<out_channels, 1, kernel_size[1], kernel_size[2]>>) |->
                            IF i[4] = 0 THEN 1 ELSE -1]),
     bias |-> bias]

WrappedLayers ==
    {LinearLayer(2, None), LinearLayer(2, Some([o \in 0 .. 1 |-> 1 - 2 * o])),
     ConvLayer(<<1, 2>>, <<1, 1>>, <<0, 0>>, <<1, 1>>, 1, Some([o \in 0 .. 0 |-> 1])),
     ConvLayer(<<1, 2>>, <<1, 1>>, <<0, 0>>, <<1, 2>>, 1, None)}

\* the weight the backward layer is created with
InitialWeight(layer) ==
    IF layer.kind = "Conv"
    THEN Full(<<layer.in_channels, layer.out_channels,
                layer.kernel_size[1], layer.kernel_size[2]>>, 1)
    ELSE Tensor(<<layer.in_features, layer.out_features>>,
                [i \in Idx(<<layer.in_features, layer.out_features>>) |->
                    IF i[1] = i[2] THEN 1 ELSE 0])

Wrap(layer) ==
    IF layer.kind = "Conv"
    THEN PatternConv2d_init(layer, InitialWeight(layer))
    ELSE PatternLinear_init(layer, InitialWeight(layer))

\* the batches fed and the signals propagated back
Inputs(layer) ==
    IF layer.kind = "Conv"
    THEN {FromRow4(<<1, 0, 1>>), FromRow4(<<0, 1, -1>>)}
    ELSE {FromRows(<<<<1, 0>>, <<0, 1>>>>), FromRows(<<<<-1, 1>>>>)}

OfInts(t) == Tensor(t.shape, [i \in Idx(t.shape) |-> RatOfInt(t.data[i])])

Signals(layer) ==
    IF layer.kind = "Conv"
    THEN {OfInts(FromRow4(IF layer.dilation = <<1, 1>> THEN <<3, -1>> ELSE <<2>>))}
    ELSE {OfInts(FromRows(<<<<1, -2>>>>))}

\* the arguments a host passes to compute_statistics: what forward returned
\* for a batch, with or without the bias-free output
StatArgs(layer) ==
    UNION {LET f == ForwardLayer(layer, x)
           IN  {[input |-> x, output |-> f, output_wo_bias |-> None]} \cup
               (IF layer.bias = None THEN {}
                ELSE {[input |-> x, output |-> f,
                       output_wo_bias |->
                           Some(Tensor(f.shape, [i \in Idx(f.shape) |->
                                   f.data[i] - layer.bias[1][i[2]]]))]})
           : x \in Inputs(layer)}

PatternTypes == {None, Some("relu"), Some("linear"), Some("tanh")}

Init == \E layer \in WrappedLayers : Wrap(layer)

Next ==
    \/ \E x \in Inputs(forward_layer) : Conv_forward(x)
    \/ \E x \in Inputs(forward_layer) : Linear_forward(x)
    \/ \E s \in Signals(forward_layer), n \in BOOLEAN : Conv_backward(s, n)
    \/ \E s \in Signals(forward_layer), n \in BOOLEAN : Linear_backward(s, n)
    \/ \E a \in StatArgs(forward_layer) :
           Conv_compute_statistics(a.input, a.output, a.output_wo_bias)
    \/ \E a \in StatArgs(forward_layer) :
           Linear_compute_statistics(a.input, a.output, a.output_wo_bias)
    \/ Conv_compute_patterns
    \/ Linear_compute_patterns
    \/ \E t \in PatternTypes : Conv_set_patterns(t)
    \/ \E t \in PatternTypes : Linear_set_patterns(t)

Spec == Init /\ [][Next]_vars

----------------------------------------------------------------------------
(* Shapes: convolutions of several kernel sizes, strides, paddings and     *)
(* dilations, a forward call and the backward call on a signal of the      *)
(* forward output's shape.                                                 *)

\* paddings smaller than the kernel, so that the backward padding
\* ks - 1 - padding is not negative
ShapeLayers ==
    {ConvLayer(c[1], c[2], c[3], c[4], 2, None) :
        c \in {d \in {<<1, 1>>, <<2, 3>>, <<3, 3>>} \X {<<1, 1>>, <<2, 2>>, <<1, 2>>}
                    \X {<<0, 0>>, <<1, 1>>, <<1, 0>>} \X {<<1, 1>>, <<2, 2>>, <<1, 2>>} :
                d[3][1] < d[1][1] /\ d[3][2] < d[1][2]}}

ShapeInputs == {Full(<<1, 1, h, w>>, 1) : h \in 3 .. MaxDim, w \in 3 .. MaxDim}

InitShape == \E layer \in ShapeLayers : Wrap(layer)

NextShape ==
    \/ \E x \in ShapeInputs : Conv_forward(x)
    \/ \E n \in BOOLEAN :
           /\ ret.op = "forward"
           /\ ret.status = "ok"
           /\ Conv_backward(Full(ret.value[1].shape, <<1, 1>>), n)

SpecShape == InitShape /\ [][NextShape]_vars

----------------------------------------------------------------------------
(* dilation_mask as a function of its arguments.                           *)

\* the arguments are drawn by InitMask; the call leaves the mask in ret
DilationMaskCall ==
    /\ ret.op = "dilation_mask"
    /\ ret.status = "called"
    /\ ret' = Call("dilation_mask", ret.args, "ok",
                   <<dilation_mask(ret.args.kernel_size, ret.args.dilation)>>)
    /\ UNCHANGED <<forward_layer, backward_layer, statistics, patterns, calls, fit, w0>>

InitMask ==
    \E c1 \in 1 .. MaxCh, c2 \in 1 .. MaxCh, kh \in 1 .. MaxK, kw \in 1 .. MaxK,
       dh \in 1 .. MaxDil, dw \in 1 .. MaxDil :
        LET layer == ConvLayer(<<kh, kw>>, <<1, 1>>, <<0, 0>>, <<dh, dw>>, c1, None)
        IN  /\ forward_layer = layer
            /\ backward_layer = PatternConv2d_backward_layer(layer, InitialWeight(layer))
            /\ statistics = None
            /\ patterns = None
            /\ ret = Call("dilation_mask",
                          [kernel_size |-> <<c1, c2, kh, kw>>, dilation |-> <<dh, dw>>],
                          "called", None)
            /\ calls = <<>>
            /\ fit = 0
            /\ w0 = InitialWeight(layer)

NextMask == DilationMaskCall

SpecMask == InitMask /\ [][NextMask]_vars

----------------------------------------------------------------------------
(* The normalisation of backward: backward layers that hand the signal on  *)
(* as it is (an identity dense layer, a 1 x 1 kernel of weight 1, plain    *)
(* and dilated), and signals with entries 0, 1e-6 and above 1e-6.          *)

RawValues == {<<0, 1>>, <<5, 1>>, <<-2, 1>>, <<1, 1000000>>, <<-2, 1000000>>}

NormLayers ==
    {LinearLayer(NormLen, None),
     ConvLayer(<<1, 1>>, <<1, 1>>, <<0, 0>>, <<1, 1>>, 1, None),
     ConvLayer(<<1, 1>>, <<1, 1>>, <<0, 0>>, <<1, 2>>, 1, None)}

NormSignals(layer) ==
    LET shape == IF layer.kind = "Conv" THEN <<1, 1, 1, NormLen>> ELSE <<1, NormLen>>
    IN  {Tensor(shape, f) : f \in [Idx(shape) -> RawValues]}

InitNorm == \E layer \in NormLayers : Wrap(layer)

NextNorm ==
    \/ \E s \in NormSignals(forward_layer), n \in BOOLEAN : Conv_backward(s, n)
    \/ \E s \in NormSignals(forward_layer), n \in BOOLEAN : Linear_backward(s, n)

SpecNorm == InitNorm /\ [][NextNorm]_vars

----------------------------------------------------------------------------
(* Properties of a wrapper's life (specification Spec).                    *)

Fitted == patterns # None

\* what the pattern solver gives for the wrapped layer's weight
Solve(stats) ==
    IF forward_layer.kind = "Conv"
    THEN compute_patterns_conv(stats, forward_layer.weight)
    ELSE compute_patterns_linear(stats, forward_layer.weight)

\* the dense batch (x, y_wo_bias, y) a compute_statistics call stands for
DenseBatch(layer, a) ==
    LET y_wo_bias == IF a.output_wo_bias = None THEN a.output ELSE a.output_wo_bias[1]
        ks == layer.kernel_size
        eff == <<ks[1] + (layer.dilation[1] - 1) * (ks[1] - 1),
                 ks[2] + (layer.dilation[2] - 1) * (ks[2] - 1)>>
        wo == conv_maps_to_dense(a.input, y_wo_bias, eff)
        full == conv_maps_to_dense(a.input, a.output, eff)
    IN  IF layer.kind = "Linear"
        THEN [x |-> a.input, y_wo_bias |-> y_wo_bias, y |-> a.output]
        ELSE [x |-> SelectColumns(wo.inp, FlattenFirst(dilation_mask(layer.weight.shape,
                                                                     layer.dilation))),
              y_wo_bias |-> wo.out, y |-> full.out]

\* two dense matrices one under the other
Stack(a, b) ==
    Tensor(<<a.shape[1] + b.shape[1], a.shape[2]>>,
           [i \in Idx(<<a.shape[1] + b.shape[1], a.shape[2]>>) |->
               IF i[1] < a.shape[1] THEN a.data[i]
               ELSE b.data[<<i[1] - a.shape[1], i[2]>>]])

RECURSIVE AllBatches(_, _)
AllBatches(layer, cs) ==
    LET last == DenseBatch(layer, cs[Len(cs)])
        rest == AllBatches(layer, SubSeq(cs, 1, Len(cs) - 1))
    IN  IF Len(cs) = 1 THEN last
        ELSE [x |-> Stack(rest.x, last.x),
              y_wo_bias |-> Stack(rest.y_wo_bias, last.y_wo_bias),
              y |-> Stack(rest.y, last.y)]

\* the statistics of all the batches of cs taken as one data set
StatisticsOf(layer, cs) ==
    IF cs = <<>> THEN None
    ELSE LET all == AllBatches(layer, cs)
         IN  Some(compute_statistics(all.x, all.y_wo_bias, all.y))

\* the outcomes that report a missing prerequisite: the invalid-state error
\* of the pattern solver, and the TypeError Python raises on None['A_plus']
InvalidState == {"InvalidState", "TypeError"}

C3_BackwardAndSetNeedPatterns ==
    (ret.op \in {"backward", "set_patterns"} /\ patterns = None)
        => (ret.status \in InvalidState /\ ret.value = None
            /\ backward_layer.weight = w0)

\* C4: set_patterns with a pattern_type other than 'relu' and 'linear' fails
\* with an invalid-argument error in every state of the wrapper.
C4_UnknownPatternTypeFails ==
    (ret.op = "set_patterns" /\ ret.args.pattern_type # None
        /\ ret.args.pattern_type[1] \notin {"relu", "linear"})
        => ret.status = "InvalidArgument"

\* C5 as claimed: whenever patterns is non-null it is the solver's result for
\* the wrapper's current statistics and forward weight.
C5_PatternsFollowStatistics ==
    patterns # None => patterns[1] = Solve(statistics)

\* C5 as amended: patterns is the solver's result for the statistics of the
\* batches fed before the last successful compute_patterns call and the
\* forward weight; a compute_statistics call leaves patterns as it is, and
\* only compute_patterns changes it.
C5_PatternsOfLastFit ==
    /\ [](patterns # None =>
            /\ fit \in 1 .. Len(calls)
            /\ patterns[1] = Solve(StatisticsOf(forward_layer, SubSeq(calls, 1, fit))))
    /\ [][ret'.op # "compute_patterns" => patterns' = patterns]_vars

C5_Witness ==
    /\ patterns # None
    /\ ret.op = "compute_statistics"
    /\ fit < Len(calls)
    /\ patterns[1] # Solve(statistics)

\* the weight set_patterns installs for a pattern matrix A: A itself in
\* PatternConv2d, the transposed matrix in PatternLinear
Installed(weight, A) ==
    IF forward_layer.kind = "Conv" THEN weight = A
    ELSE /\ weight.shape = <<A.shape[2], A.shape[1]>>
         /\ \A i \in Idx(weight.shape) : weight.data[i] = A.data[<<i[2], i[1]>>]

\* C6: in the Fitted state set_patterns('relu'), and set_patterns() without
\* argument, make the backward weight patterns['A_plus'] and
\* set_patterns('linear') makes it patterns['A_linear'] (transposed in
\* PatternLinear); the call changes neither statistics nor patterns nor the
\* forward layer; no other call changes the backward weight, and backward
\* computes its output from the weight installed last.
C6_SetPatternsInstalls ==
    /\ []((ret.op = "set_patterns" /\ Fitted) =>
            /\ ret.args.pattern_type \in {None, Some("relu")} =>
                    (ret.status = "ok" /\ Installed(backward_layer.weight, patterns[1].A_plus))
            /\ ret.args.pattern_type = Some("linear") =>
                    (ret.status = "ok" /\ Installed(backward_layer.weight, patterns[1].A_linear)))
    /\ [][ret'.op = "set_patterns" =>
            (statistics' = statistics /\ patterns' = patterns
             /\ forward_layer' = forward_layer)]_vars
    /\ [][ret'.op # "set_patterns" => backward_layer' = backward_layer]_vars
    /\ []((ret.op = "backward" /\ ret.status = "ok" /\ ~ret.args.normalize_output) =>
            ret.value[1] = (IF forward_layer.kind = "Conv"
                            THEN Conv_backward_raw(forward_layer, backward_layer, ret.args.input)
                            ELSE BackwardLayer(backward_layer, ret.args.input)))

C6_Witness ==
    /\ Fitted
    /\ ret.op = "set_patterns"
    /\ ret.args.pattern_type = Some("linear")
    /\ forward_layer.kind = "Linear"
    /\ backward_layer.weight # w0
    /\ backward_layer.weight # patterns[1].A_linear

\* C10: statistics is null until the first compute_statistics call, which
\* creates it with compute_statistics from that batch alone; every later
\* call replaces it with update_statistics of the new batch and the prior
\* statistics, so that it is the statistics of all the batches fed; no other
\* call changes it and it never becomes null again; an omitted
\* output_wo_bias stands for output.
C10_StatisticsLifecycle ==
    /\ [](statistics = StatisticsOf(forward_layer, calls))
    /\ [][statistics # None => statistics' # None]_vars
    /\ [][ret'.op # "compute_statistics" => statistics' = statistics]_vars
    /\ [][(ret'.op = "compute_statistics" /\ ret'.status = "ok") =>
            LET b == DenseBatch(forward_layer, ret'.args)
            IN  /\ ret'.args.output_wo_bias = None => b.y_wo_bias = b.y
                /\ statistics' =
                      IF statistics = None
                      THEN Some(compute_statistics(b.x, b.y_wo_bias, b.y))
                      ELSE Some(update_statistics(b.x, b.y_wo_bias, b.y, statistics[1]))]_vars

C10_Witness ==
    /\ Len(calls) >= 2
    /\ ret.op = "compute_statistics"
    /\ ret.args.output_wo_bias = None
    /\ statistics # None
    /\ statistics[1].n > ret.args.input.shape[1]

----------------------------------------------------------------------------
(* Properties of the shapes (SpecShape), of dilation_mask (SpecMask) and   *)
(* of the normalisation (SpecNorm).                                        *)

\* C7: backward applied to a signal of the shape of the output forward gave
\* for an input returns a tensor of exactly that input's shape, for every
\* kernel size, stride, padding and dilation.
C7_BackwardRestoresInputShape ==
    [][(ret.op = "forward" /\ ret.status = "ok" /\ ret'.op = "backward"
            /\ ret'.args.input.shape = ret.value[1].shape)
        => (ret'.status = "ok" /\ ret'.value[1].shape = ret.args.input.shape)]_vars

\* the raw output of the call recorded in ret: the backward layer applied to
\* the signal, scattered by the dilation mask in a dilated PatternConv2d
RawOutput ==
    IF forward_layer.kind = "Conv"
    THEN Conv_backward_raw(forward_layer, backward_layer, ret.args.input)
    ELSE BackwardLayer(backward_layer, ret.args.input)

\* the largest absolute value of a tensor of rationals
AbsMax(t) ==
    CHOOSE m \in {RatAbs(t.data[i]) : i \in Idx(t.shape)} :
        \A i \in Idx(t.shape) : ~RatLess(m, RatAbs(t.data[i]))

InUnitInterval(v) == v[1] <= v[2] /\ -v[1] <= v[2]

\* C8: with normalize_output the entries of the raw output are divided by
\* its largest absolute value m when m > 1e-6 and left undivided otherwise,
\* then clipped to [-1, 1]: every returned entry lies in [-1, 1] and, when
\* m > 1e-6, an entry that held m in absolute value is exactly 1 or -1;
\* without normalize_output the raw output is returned unchanged.
C8_Normalization ==
    (ret.op = "backward" /\ ret.status = "ok") =>
        LET raw == RawOutput
            out == ret.value[1]
            I == Idx(raw.shape)
            m == AbsMax(raw)
            large == m[1] * 1000000 > m[2]
        IN  /\ out.shape = raw.shape
            /\ ~ret.args.normalize_output => out = raw
            /\ ret.args.normalize_output =>
                  /\ \A i \in I : InUnitInterval(out.data[i])
                  /\ large => \A i \in I :
                        /\ out.data[i][1] * raw.data[i][2] * m[1]
                              = raw.data[i][1] * m[2] * out.data[i][2]
                        /\ RatAbs(raw.data[i]) = m => out.data[i] \in {<<1, 1>>, <<-1, 1>>}
                  /\ ~large => \A i \in I : out.data[i] = raw.data[i]

C8_Witness ==
    /\ ret.op = "backward"
    /\ ret.status = "ok"
    /\ ret.args.normalize_output
    /\ AbsMax(RawOutput) = <<5, 1>>
    /\ \E i \in Idx(ret.value[1].shape) :
          /\ RawOutput.data[i] = <<-2, 1>>
          /\ ret.value[1].data[i] = <<-2, 5>>
    /\ \E i \in Idx(ret.value[1].shape) :
          /\ RawOutput.data[i] = <<5, 1>>
          /\ ret.value[1].data[i] = <<1, 1>>

\* C9: dilation_mask((c1, c2, kh, kw), (dh, dw)) has the shape
\* (c1, c2, kh + (dh-1)(kh-1), kw + (dw-1)(kw-1)); its entry [a, b, i, j] is 1
\* when i is a multiple of dh and j a multiple of dw and 0 otherwise; every
\* [a, b] slice holds kh * kw ones, and the mask of dilation (1, 1) no zero.
C9_DilationMask ==
    (ret.op = "dilation_mask" /\ ret.status = "ok") =>
        LET ks == ret.args.kernel_size
            d == ret.args.dilation
            mask == ret.value[1]
        IN  /\ mask.shape = <<ks[1], ks[2], ks[3] + (d[1] - 1) * (ks[3] - 1),
                                ks[4] + (d[2] - 1) * (ks[4] - 1)>>
            /\ DOMAIN mask.data = Idx(mask.shape)
            /\ \A i \in Idx(mask.shape) :
                  mask.data[i] = IF i[3] % d[1] = 0 /\ i[4] % d[2] = 0 THEN 1 ELSE 0
            /\ \A a \in 0 .. ks[1] - 1, b \in 0 .. ks[2] - 1 :
                  Cardinality({i \in Idx(mask.shape) :
                      i[1] = a /\ i[2] = b /\ mask.data[i] = 1}) = ks[3] * ks[4]
            /\ d = <<1, 1>> => \A i \in Idx(mask.shape) : mask.data[i] # 0

C9_Witness ==
    /\ ret.op = "dilation_mask"
    /\ ret.status = "ok"
    /\ ret.args.kernel_size = <<2, 1, 2, 3>>
    /\ ret.args.dilation = <<3, 2>>
    /\ ret.value[1].shape = <<2, 1, 4, 5>>
    /\ ret.value[1].data[<<1, 0, 3, 4>>] = 1
    /\ ret.value[1].data[<<1, 0, 2, 4>>] = 0

====
